---- MODULE Spec2Model ----
(***************************************************************************)
(* A model of the picoclaw control plane (server.py): the secret-aware     *)
(* configuration engine (mask_secrets, merge_secrets, the /api/config      *)
(* handlers) and the gateway supervisor (GatewayManager).                  *)
(*                                                                         *)
(* call_llm of .github/scripts/validate_config.py is modelled too.         *)
(*                                                                         *)
(* Six specifications share the module:                                    *)
(*   Spec       the supervisor: concurrent start/stop/restart coroutines,  *)
(*              the output-drain tasks and the child processes;            *)
(*   SpecCfg    the configuration handlers: concurrent PUT /api/config     *)
(*              requests and a GET /api/config reader;                     *)
(*   SpecMask   mask_secrets applied to every document of a bounded set,   *)
(*              then masked again and resubmitted to merge_secrets;        *)
(*   SpecMerge  merge_secrets applied to every pair of documents of a      *)
(*              bounded set;                                               *)
(*   SpecLog    one child that fills the log beyond its capacity;          *)
(*   SpecLlm    one call of call_llm, the API answering anything.          *)
(***************************************************************************)
EXTENDS Integers, Sequences, FiniteSets, TLC

(***************************************************************************)
(* Bounds of the model.                                                    *)
(***************************************************************************)
\* Nesting depth of the generated documents.
MaxDepth == 2
\* Longest generated list of strings.
MaxListLen == 1
\* Concurrent PUT /api/config requests.
MaxWriters == 2
\* Invocations of start(), stop() and restart().
MaxCalls == 3
\* Child processes the supervisor can spawn.
MaxSpawns == 2
\* Output lines one child can write.
MaxLines == 1
MaxLogLines == 501

(***************************************************************************)
(* JSON values.  A value is a record [t, v]: t is the Python type that     *)
(* isinstance() sees, v the payload (a string, a number, a sequence of     *)
(* values, or a function from key names to values).                        *)
(***************************************************************************)
Str(s) == [t |-> "str", v |-> s]
Num(n) == [t |-> "int", v |-> n]
Float(s) == [t |-> "float", v |-> s]
Bool(b) == [t |-> "bool", v |-> b]
List(q) == [t |-> "list", v |-> q]
Dict(f) == [t |-> "dict", v |-> f]

EmptyDict == [k \in {} |-> Str("")]

IsStr(x) == x.t = "str"
IsDict(x) == x.t = "dict"
IsList(x) == x.t = "list"

\* dict.get(k, default)
Get(d, k, default) == IF k \in DOMAIN d.v THEN d.v[k] ELSE default

\* str.endswith(suffix)
EndsWith(s, suffix) ==
    /\ Len(s) >= Len(suffix)
    /\ SubSeq(s, Len(s) - Len(suffix) + 1, Len(s)) = suffix

\* s[:n]
Prefix(s, n) == IF Len(s) <= n THEN s ELSE SubSeq(s, 1, n)

SECRET_FIELDS ==
    { "api_key", "token", "app_secret", "encrypt_key",
      "verification_token", "bot_token", "app_token",
      "channel_secret", "channel_access_token", "client_secret" }

\* v[:8] + "***" if len(v) > 8 else "***"
MaskedValueFour(v) == IF Len(v) > 8 THEN Prefix(v, 4) \o "***" ELSE "***"
MaskedValueShort(v) == IF Len(v) >= 8 THEN Prefix(v, 8) \o "***" ELSE "***"
MaskedValueNine(v) == IF Len(v) > 8 THEN Prefix(v, 9) \o "***" ELSE "***"
MaskedValue(v) == IF Len(v) > 8 THEN Prefix(v, 8) \o "***" ELSE "***"

\* The test of mask_secrets: a secret key holding a non-empty string.
MaskTestAnyString(k, v) == k \in SECRET_FIELDS /\ IsStr(v)
MaskTest(k, v) == k \in SECRET_FIELDS /\ IsStr(v) /\ v.v # ""

RECURSIVE mask_secrets(_)
mask_secrets(data) ==
    IF IsDict(data)
    THEN Dict([k \in DOMAIN data.v |->
                 IF MaskTest(k, data.v[k])
                 THEN Str(MaskedValue(data.v[k].v))
                 ELSE mask_secrets(data.v[k])])
    ELSE IF IsList(data)
    THEN List([i \in DOMAIN data.v |-> mask_secrets(data.v[i])])
    ELSE data

\* The test of merge_secrets: a secret key holding a masked-looking string.
PlaceholderTestNever(k, v) == FALSE
PlaceholderTestAnyString(k, v) == k \in SECRET_FIELDS /\ IsStr(v)
PlaceholderTest(k, v) ==
    k \in SECRET_FIELDS /\ IsStr(v) /\ (EndsWith(v.v, "***") \/ v.v = "")

RECURSIVE merge_secrets(_, _)
MergeKeepExistingKeys(new_data, existing_data) ==
    Dict([k \in DOMAIN new_data.v \cup DOMAIN existing_data.v |->
            IF k \notin DOMAIN new_data.v
            THEN existing_data.v[k]
            ELSE IF PlaceholderTest(k, new_data.v[k])
            THEN Get(existing_data, k, Str(""))
            ELSE merge_secrets(new_data.v[k], Get(existing_data, k, Dict(EmptyDict)))])
\* The dict branch of merge_secrets: one entry per key of new_data.
MergeDicts(new_data, existing_data) ==
    Dict([k \in DOMAIN new_data.v |->
            IF PlaceholderTest(k, new_data.v[k])
            THEN Get(existing_data, k, Str(""))
            ELSE merge_secrets(new_data.v[k], Get(existing_data, k, Dict(EmptyDict)))])

merge_secrets(new_data, existing_data) ==
    IF IsDict(new_data) /\ IsDict(existing_data)
    THEN MergeDicts(new_data, existing_data)
    ELSE new_data

(***************************************************************************)
(* Paths into a value: a path is a sequence of dict keys and list indexes  *)
(* (an index i is written "#i", which is no key of any generated dict).    *)
(***************************************************************************)
Idx(i) == "#" \o ToString(i)

RECURSIVE Paths(_)
Paths(x) ==
    {<<>>} \cup
    (IF IsDict(x)
     THEN UNION { { <<k>> \o p : p \in Paths(x.v[k]) } : k \in DOMAIN x.v }
     ELSE IF IsList(x)
     THEN UNION { { <<Idx(i)>> \o p : p \in Paths(x.v[i]) } : i \in DOMAIN x.v }
     ELSE {})

Child(x, step) ==
    IF IsDict(x) THEN x.v[step]
    ELSE x.v[CHOOSE i \in DOMAIN x.v : Idx(i) = step]

RECURSIVE At(_, _)
At(x, p) == IF p = <<>> THEN x ELSE At(Child(x, p[1]), Tail(p))

Has(x, p) == p \in Paths(x)

Parent(p) == SubSeq(p, 1, Len(p) - 1)
Last(p) == p[Len(p)]

\* p names an entry of a dict of x whose key is a secret field name.
SecretEntry(x, p) ==
    /\ p # <<>>
    /\ IsDict(At(x, Parent(p)))
    /\ Last(p) \in SECRET_FIELDS

\* A secret entry holding "" or a string that ends in the mask marker.
PlaceholderEntry(x, p) ==
    /\ SecretEntry(x, p)
    /\ IsStr(At(x, p))
    /\ (At(x, p).v = "" \/ EndsWith(At(x, p).v, "***"))

\* A secret entry holding a real secret: a non-empty string without the marker.
RealSecretEntry(x, p) ==
    /\ SecretEntry(x, p)
    /\ IsStr(At(x, p))
    /\ At(x, p).v # ""
    /\ ~EndsWith(At(x, p).v, "***")

IsLeaf(x) == ~IsDict(x) /\ ~IsList(x)

\* Every list of x holds strings only.
ListsOfStrings(x) ==
    \A p \in Paths(x) :
        IsList(At(x, p)) => \A i \in DOMAIN At(x, p).v : IsStr(At(x, p).v[i])

(***************************************************************************)
(* The bounded sets of documents.  A generated document is a dict with an  *)
(* optional secret key and an optional plain key; the plain key holds a    *)
(* leaf or a document one level shallower, the secret key a leaf or a      *)
(* small dict.                                                             *)
(***************************************************************************)
GenSecretKey == "api_key"
GenPlainKey == "providers"

MapsOver(secretVals, plainVals) ==
    {EmptyDict}
    \cup { (GenSecretKey :> a) : a \in secretVals }
    \cup { (GenPlainKey :> b) : b \in plainVals }
    \cup { (GenSecretKey :> a) @@ (GenPlainKey :> b) : a \in secretVals, b \in plainVals }

RECURSIVE DocsGen(_, _, _)
DocsGen(secretVals, plainVals, d) ==
    IF d = 0 THEN {}
    ELSE { Dict(f) : f \in MapsOver(secretVals, plainVals \cup DocsGen(secretVals, plainVals, d - 1)) }

StringLists == { List([i \in 1..n |-> Str("abcdefghi")]) : n \in 0..MaxListLen }

\* Strings on both sides of the 8-character boundary, masked or not.
MaskStrings == { "", "abc", "abcdefgh", "abcdefghi", "***", "abcdefgh***" }
MaskLeaves ==
    { Str(s) : s \in MaskStrings } \cup { Num(7), Bool(TRUE) } \cup StringLists
    \cup { List(<<Dict("token" :> Str("abcdefghi"))>>) }
MaskDocs == DocsGen(MaskLeaves \cup { Dict("token" :> Str("abcdefghi")) }, MaskLeaves, MaxDepth)

MergeSecretVals ==
    { Str(""), Str("ab***"), Str("abc"), Num(7), Dict(GenPlainKey :> Str("abc")) }
MergePlainVals == { Num(7) } \cup StringLists
MergeDocs == DocsGen(MergeSecretVals, MergePlainVals, MaxDepth)

Null == [t |-> "null", v |-> 0]

(***************************************************************************)
(* State.                                                                  *)
(***************************************************************************)
VARIABLES
    doc_pc,          \* SpecMask, SpecMerge: the step reached
    existing_data,   \* the stored document (merge_secrets' existing_data)
    new_data,        \* the submitted document (merge_secrets' new_data)
    masked,          \* mask_secrets(existing_data), what a read returns
    remasked,        \* mask_secrets(masked)
    merged,          \* the result of merge_secrets
    config_file,     \* SpecCfg: what CONFIG_PATH holds
    config_lock,     \* the writer holding config_lock, or 0
    put,             \* the api_config_put requests: their position and locals
    get,             \* the locals of the last api_config_get
    process,         \* Spec: GatewayManager.process (a child, or NoProcess)
    state,           \* GatewayManager.state
    logs,            \* GatewayManager.logs
    start_time,      \* GatewayManager.start_time
    restart_count,   \* GatewayManager.restart_count
    read_tasks,      \* GatewayManager._read_tasks: the _read_output tasks
    children,        \* the child processes, as the operating system has them
    calls,           \* the start(), stop() and restart() coroutines
    llm_pc,          \* SpecLlm: where call_llm is
    attempt,         \* call_llm's attempt
    backoff,         \* call_llm's backoff
    requests,        \* what the API answered to each request sent, in order
    slept,           \* the arguments of the time.sleep calls, in order
    result           \* what call_llm returned or raised

docVars == <<doc_pc, existing_data, new_data, masked, remasked, merged>>
cfgVars == <<config_file, config_lock, put, get>>
supVars == <<process, state, logs, start_time, restart_count, read_tasks, children, calls>>

llmVars == <<llm_pc, attempt, backoff, requests, slept, result>>

vars == <<docVars, cfgVars, supVars, llmVars>>

(***************************************************************************)
(* The configuration store.                                                *)
(***************************************************************************)
default_config ==
    Dict([
      agents |-> Dict([
        defaults |-> Dict([
          workspace |-> Str("~/.picoclaw/workspace"),
          restrict_to_workspace |-> Bool(TRUE),
          provider |-> Str(""),
          model |-> Str("glm-4.7"),
          max_tokens |-> Num(8192),
          temperature |-> Float("0.7"),
          max_tool_iterations |-> Num(20)])]),
      channels |-> Dict([
        telegram |-> Dict([enabled |-> Bool(FALSE), token |-> Str(""), proxy |-> Str(""),
                           allow_from |-> List(<<>>)]),
        discord |-> Dict([enabled |-> Bool(FALSE), token |-> Str(""), allow_from |-> List(<<>>)]),
        slack |-> Dict([enabled |-> Bool(FALSE), bot_token |-> Str(""), app_token |-> Str(""),
                        allow_from |-> List(<<>>)]),
        whatsapp |-> Dict([enabled |-> Bool(FALSE), bridge_url |-> Str("ws://localhost:3001"),
                           allow_from |-> List(<<>>)]),
        feishu |-> Dict([enabled |-> Bool(FALSE), app_id |-> Str(""), app_secret |-> Str(""),
                         encrypt_key |-> Str(""), verification_token |-> Str(""),
                         allow_from |-> List(<<>>)]),
        dingtalk |-> Dict([enabled |-> Bool(FALSE), client_id |-> Str(""),
                           client_secret |-> Str(""), allow_from |-> List(<<>>)]),
        qq |-> Dict([enabled |-> Bool(FALSE), app_id |-> Str(""), app_secret |-> Str(""),
                     allow_from |-> List(<<>>)]),
        line |-> Dict([enabled |-> Bool(FALSE), channel_secret |-> Str(""),
                       channel_access_token |-> Str(""), webhook_host |-> Str("0.0.0.0"),
                       webhook_port |-> Num(18791), webhook_path |-> Str("/webhook/line"),
                       allow_from |-> List(<<>>)]),
        maixcam |-> Dict([enabled |-> Bool(FALSE), host |-> Str("0.0.0.0"), port |-> Num(18790),
                          allow_from |-> List(<<>>)])]),
      providers |-> Dict([
        anthropic |-> Dict([api_key |-> Str("")]),
        openai |-> Dict([api_key |-> Str(""), api_base |-> Str("")]),
        openrouter |-> Dict([api_key |-> Str("")]),
        deepseek |-> Dict([api_key |-> Str("")]),
        groq |-> Dict([api_key |-> Str("")]),
        gemini |-> Dict([api_key |-> Str("")]),
        zhipu |-> Dict([api_key |-> Str(""), api_base |-> Str("")]),
        vllm |-> Dict([api_key |-> Str(""), api_base |-> Str("")]),
        nvidia |-> Dict([api_key |-> Str(""), api_base |-> Str("")]),
        moonshot |-> Dict([api_key |-> Str("")])]),
      gateway |-> Dict([host |-> Str("0.0.0.0"), port |-> Num(18790)]),
      tools |-> Dict([
        web |-> Dict([
          brave |-> Dict([enabled |-> Bool(FALSE), api_key |-> Str(""), max_results |-> Num(5)]),
          duckduckgo |-> Dict([enabled |-> Bool(TRUE), max_results |-> Num(5)])])]),
      heartbeat |-> Dict([enabled |-> Bool(TRUE), interval |-> Num(30)]),
      devices |-> Dict([enabled |-> Bool(FALSE), monitor_usb |-> Bool(FALSE)])])

\* CONFIG_PATH does not exist, or holds text that json.loads rejects.
Absent == [t |-> "absent", v |-> 0]
Unparsable == [t |-> "unparsable", v |-> 0]

\* load_config(): the parsed file, or the default document when the file is
\* missing or does not parse.
load_config ==
    IF config_file.t \in {"absent", "unparsable"} THEN default_config ELSE config_file

\* save_config(data): the file holds json.dumps(data); data came out of
\* json.loads, and json.loads(json.dumps(data)) is data for such a value.
save_config(data) == config_file' = data

(***************************************************************************)
(* PUT /api/config and GET /api/config.  Each statement of the block under *)
(* config_lock is a step of its own, so that other requests may run        *)
(* between any two of them: what keeps the block together is the lock.     *)
(***************************************************************************)
Writers == 1..MaxWriters

AnthropicKey == <<"providers", "anthropic", "api_key">>
Anthropic(key) == Dict([providers |-> Dict([anthropic |-> Dict([api_key |-> key])])])

RealBody == Anthropic(Str("sk-real-value-123456"))
MaskedBody == Anthropic(Str("sk-real-***"))
RestartBody ==
    Dict([_restartGateway |-> Bool(TRUE), gateway |-> Dict([port |-> Num(18790)])])

\* The bodies a request may carry: documents, and JSON that is no object.
PutBodies == { RealBody, MaskedBody, RestartBody, List(<<>>) }

\* Python truthiness of a JSON value.
Truthy(x) ==
    CASE x.t = "bool" -> x.v
      [] x.t = "int" -> x.v # 0
      [] x.t = "str" -> x.v # ""
      [] x.t = "list" -> Len(x.v) > 0
      [] x.t = "dict" -> DOMAIN x.v # {}
      [] OTHER -> x.t # "null"

\* The dict left by body.pop(k, ...).
Without(d, k) == Dict([x \in DOMAIN d.v \ {k} |-> d.v[x]])

IdlePut ==
    [pc |-> "idle", body |-> Null, restart |-> FALSE, existing |-> Null,
     merged |-> Null, status |-> 0, restart_task |-> FALSE]

InitCfgVars ==
    /\ config_file \in {Absent, Unparsable}
    /\ config_lock = 0
    /\ put = [w \in Writers |-> IdlePut]
    /\ get = [config |-> Null, response |-> Null]

\* await request.json() returns the parsed body.
PutParse(w) ==
    /\ put[w].pc = "idle"
    /\ \E b \in PutBodies : put' = [put EXCEPT ![w].pc = "parsed", ![w].body = b]
    /\ UNCHANGED <<config_file, config_lock, get>>
    /\ UNCHANGED <<docVars, supVars, llmVars>>

\* await request.json() raises: 400 Invalid JSON.
PutInvalidJson(w) ==
    /\ put[w].pc = "idle"
    /\ put' = [put EXCEPT ![w].pc = "done", ![w].status = 400]
    /\ UNCHANGED <<config_file, config_lock, get>>
    /\ UNCHANGED <<docVars, supVars, llmVars>>

\* The pop with no regard for the type of the body.
PutPopAnyBody(w) ==
    /\ put[w].pc = "parsed"
    /\ put' = [put EXCEPT ![w].pc = "popped"]
    /\ UNCHANGED <<config_file, config_lock, get>>
    /\ UNCHANGED <<docVars, supVars, llmVars>>

\* restart = body.pop("_restartGateway", False); a body with no such pop
\* (a list takes one argument, a string has none) raises: 500.
PutPop(w) ==
    /\ put[w].pc = "parsed"
    /\ IF IsDict(put[w].body)
       THEN put' = [put EXCEPT
                      ![w].pc = "popped",
                      ![w].restart = Truthy(Get(put[w].body, "_restartGateway", Bool(FALSE))),
                      ![w].body = Without(put[w].body, "_restartGateway")]
       ELSE put' = [put EXCEPT ![w].pc = "done", ![w].status = 500]
    /\ UNCHANGED <<config_file, config_lock, get>>
    /\ UNCHANGED <<docVars, supVars, llmVars>>

\* config_lock.acquire() returns only while no request holds the lock.
LockAlwaysFree == TRUE
LockFree == config_lock = 0

\* async with config_lock: entered.
PutAcquire(w) ==
    /\ put[w].pc = "popped"
    /\ LockFree
    /\ config_lock' = w
    /\ put' = [put EXCEPT ![w].pc = "locked"]
    /\ UNCHANGED <<config_file, get>>
    /\ UNCHANGED <<docVars, supVars, llmVars>>

\* existing = load_config()
PutLoad(w) ==
    /\ put[w].pc = "locked"
    /\ put' = [put EXCEPT ![w].pc = "loaded", ![w].existing = load_config]
    /\ UNCHANGED <<config_file, config_lock, get>>
    /\ UNCHANGED <<docVars, supVars, llmVars>>

\* merged = merge_secrets(body, existing)
PutMerge(w) ==
    /\ put[w].pc = "loaded"
    /\ put' = [put EXCEPT ![w].pc = "merged",
                          ![w].merged = merge_secrets(put[w].body, put[w].existing)]
    /\ UNCHANGED <<config_file, config_lock, get>>
    /\ UNCHANGED <<docVars, supVars, llmVars>>

\* The end of the handler with the restart task created in any case.
PutSaveAlwaysRestarts(w) ==
    /\ put[w].pc = "merged"
    /\ save_config(put[w].merged)
    /\ config_lock' = 0
    /\ put' = [put EXCEPT ![w].pc = "done", ![w].status = 200, ![w].restart_task = TRUE]
    /\ UNCHANGED get
    /\ UNCHANGED <<docVars, supVars, llmVars>>

\* save_config(merged) raises (mkdir, or write_text, which has opened and
\* truncated the file before it writes): the lock is released on leaving
\* the block, line 283 is not reached, and the answer is 500.  The file is
\* as it was, or holds a part of the new text.
PutSaveFails(w) ==
    /\ put[w].pc = "merged"
    /\ config_file' \in {config_file, Unparsable}
    /\ config_lock' = 0
    /\ put' = [put EXCEPT ![w].pc = "done", ![w].status = 500]
    /\ UNCHANGED get
    /\ UNCHANGED <<docVars, supVars, llmVars>>

\* save_config(merged), the lock released on leaving the block, the restart
\* task created when asked for, and the 200 response.
PutSave(w) ==
    /\ put[w].pc = "merged"
    /\ save_config(put[w].merged)
    /\ config_lock' = 0
    /\ put' = [put EXCEPT ![w].pc = "done", ![w].status = 200,
                          ![w].restart_task = put[w].restart]
    /\ UNCHANGED get
    /\ UNCHANGED <<docVars, supVars, llmVars>>

\* api_config_get: config = load_config(); the response is mask_secrets(config).
ConfigGet ==
    /\ get' = [config |-> load_config, response |-> mask_secrets(load_config)]
    /\ UNCHANGED <<config_file, config_lock, put>>
    /\ UNCHANGED <<docVars, supVars, llmVars>>

NextCfg ==
    \/ \E w \in Writers :
          \/ PutParse(w)
          \/ PutInvalidJson(w)
          \/ PutPop(w)
          \/ PutAcquire(w)
          \/ PutLoad(w)
          \/ PutMerge(w)
          \/ PutSave(w)
          \/ PutSaveFails(w)
    \/ ConfigGet

(***************************************************************************)
(* The gateway supervisor (GatewayManager).                                *)
(*                                                                         *)
(* The coroutines run on one event loop: the code between two awaits is    *)
(* one step.  A child process passes from "unspawned" to "running", to     *)
(* "exited" when the operating system ends it, and to "reaped" when the    *)
(* event loop has recorded its exit (Process.returncode is then set).      *)
(***************************************************************************)
Children == 1..MaxSpawns
Calls == 1..MaxCalls

\* self.process is None; self.start_time is None.
NoProcess == 0
NoTime == 0

\* deque(maxlen=500)
LOG_MAXLEN == 500

\* The signals of terminate() and kill().
SIGTERM == 15
SIGKILL == 9

\* An append that drops the new line when the log is full.
LogAppendDropsNewest(q, line) ==
    IF Len(q) = LOG_MAXLEN THEN q ELSE q \o <<line>>

\* self.logs.append(line)
LogAppend(q, line) ==
    IF Len(q) = LOG_MAXLEN THEN Tail(q) \o <<line>> ELSE q \o <<line>>

\* The lines of the log: the two messages of the supervisor, and the n-th
\* line of the output of child c.
FailedLine == [kind |-> "Failed to start gateway", arg |-> 0, n |-> 0]
ExitedLine(code) == [kind |-> "Gateway exited with code", arg |-> code, n |-> 0]
OutputLine(c) ==
    [kind |-> "output", arg |-> c, n |-> children[c].wrote - children[c].pending + 1]

\* A child before its spawn: it will write `left` lines; it has written
\* `wrote` lines, of which `pending` are unread in the pipe.
NotSpawned ==
    [status |-> "unspawned", code |-> 0, termed |-> FALSE, killed |-> FALSE,
     left |-> MaxLines, wrote |-> 0, pending |-> 0]
NoCall == [op |-> "none", pc |-> "idle", target |-> NoProcess]
NoTask == [pc |-> "none", stream |-> NoProcess]

\* self.process and self.process.returncode is None
Live == process # NoProcess /\ children[process].status # "reaped"

\* The children alive in the operating system.
Alive == { c \in Children : children[c].status = "running" }

\* get_status(); uptime is TRUE when the snapshot carries an uptime.
get_status ==
    [state |-> state,
     pid |-> IF Live THEN process ELSE NoProcess,
     uptime |-> start_time # NoTime /\ state = "running",
     restart_count |-> restart_count]

\* api_logs: list(gateway.logs), the lines from the oldest to the newest.
api_logs == [lines |-> [i \in 1..Len(logs) |-> logs[i]]]

InitSupVars ==
    /\ process = NoProcess
    /\ state = "stopped"
    /\ logs = <<>>
    /\ start_time = NoTime
    /\ restart_count = 0
    /\ read_tasks = [c \in Children |-> NoTask]
    /\ children = [c \in Children |-> NotSpawned]
    /\ calls = [t \in Calls |-> NoCall]

\* The supervisor at rest, for the specifications that leave it alone.
SupIdle == InitSupVars

\* The calls are numbered in the order of their creation.
MayInvoke(t) ==
    /\ calls[t].op = "none"
    /\ \A u \in Calls : u < t => calls[u].op # "none"

\* start() without the test of the handle.
StartCallAlwaysSpawns(t) ==
    /\ MayInvoke(t)
    /\ calls' = [calls EXCEPT ![t] = [op |-> "start", pc |-> "spawn", target |-> NoProcess]]
    /\ state' = "starting"
    /\ UNCHANGED <<process, logs, start_time, restart_count, read_tasks, children>>
    /\ UNCHANGED <<docVars, cfgVars, llmVars>>

\* start(): returns at once when a child is live, else sets "starting" and
\* awaits create_subprocess_exec.
StartCall(t) ==
    /\ MayInvoke(t)
    /\ IF Live
       THEN /\ calls' = [calls EXCEPT ![t] = [op |-> "start", pc |-> "done", target |-> NoProcess]]
            /\ UNCHANGED state
       ELSE /\ calls' = [calls EXCEPT ![t] = [op |-> "start", pc |-> "spawn", target |-> NoProcess]]
            /\ state' = "starting"
    /\ UNCHANGED <<process, logs, start_time, restart_count, read_tasks, children>>
    /\ UNCHANGED <<docVars, cfgVars, llmVars>>

\* create_subprocess_exec starts the child; the coroutine that awaits it
\* resumes in a later step.
SpawnExec(t) ==
    /\ calls[t].pc = "spawn"
    /\ \E c \in Children :
          /\ children[c].status = "unspawned"
          /\ \A b \in Children : b < c => children[b].status # "unspawned"
          /\ children' = [children EXCEPT ![c].status = "running"]
          /\ calls' = [calls EXCEPT ![t].pc = "spawned", ![t].target = c]
    /\ UNCHANGED <<process, state, logs, start_time, restart_count, read_tasks>>
    /\ UNCHANGED <<docVars, cfgVars, llmVars>>

\* start() that clears the log for the new run.
StartSpawnedClearsLogs(t) ==
    /\ calls[t].pc = "spawned"
    /\ process' = calls[t].target
    /\ state' = "running"
    /\ start_time' = calls[t].target
    /\ logs' = <<>>
    /\ read_tasks' = [read_tasks EXCEPT ![calls[t].target] = [pc |-> "created", stream |-> NoProcess]]
    /\ calls' = [calls EXCEPT ![t].pc = "done"]
    /\ UNCHANGED <<restart_count, children>>
    /\ UNCHANGED <<docVars, cfgVars, llmVars>>

\* start() resumes with the new process: "running", the start time, a new
\* _read_output task.
StartSpawned(t) ==
    /\ calls[t].pc = "spawned"
    /\ process' = calls[t].target
    /\ state' = "running"
    /\ start_time' = calls[t].target
    /\ read_tasks' = [read_tasks EXCEPT ![calls[t].target] = [pc |-> "created", stream |-> NoProcess]]
    /\ calls' = [calls EXCEPT ![t].pc = "done"]
    /\ UNCHANGED <<logs, restart_count, children>>
    /\ UNCHANGED <<docVars, cfgVars, llmVars>>

\* create_subprocess_exec raises: "error" and a failure line.
SpawnFails(t) ==
    /\ calls[t].pc = "spawn"
    /\ state' = "error"
    /\ logs' = LogAppend(logs, FailedLine)
    /\ calls' = [calls EXCEPT ![t].pc = "done"]
    /\ UNCHANGED <<process, start_time, restart_count, read_tasks, children>>
    /\ UNCHANGED <<docVars, cfgVars, llmVars>>

\* stop() that forgets the handle when no child is live.
StopCallClearsHandle(t) ==
    /\ MayInvoke(t)
    /\ IF ~Live
       THEN /\ state' = "stopped"
            /\ process' = NoProcess
            /\ calls' = [calls EXCEPT ![t] = [op |-> "stop", pc |-> "done", target |-> NoProcess]]
            /\ UNCHANGED children
       ELSE /\ state' = "stopping"
            /\ children' = [children EXCEPT ![process].termed = TRUE]
            /\ calls' = [calls EXCEPT ![t] = [op |-> "stop", pc |-> "wait", target |-> process]]
            /\ UNCHANGED process
    /\ UNCHANGED <<logs, start_time, restart_count, read_tasks>>
    /\ UNCHANGED <<docVars, cfgVars, llmVars>>

\* stop(): "stopped" at once when no child is live, else "stopping",
\* terminate() and the wait of at most 10 seconds.
StopCall(t) ==
    /\ MayInvoke(t)
    /\ IF ~Live
       THEN /\ state' = "stopped"
            /\ calls' = [calls EXCEPT ![t] = [op |-> "stop", pc |-> "done", target |-> NoProcess]]
            /\ UNCHANGED children
       ELSE /\ state' = "stopping"
            /\ children' = [children EXCEPT ![process].termed = TRUE]
            /\ calls' = [calls EXCEPT ![t] = [op |-> "stop", pc |-> "wait", target |-> process]]
    /\ UNCHANGED <<process, logs, start_time, restart_count, read_tasks>>
    /\ UNCHANGED <<docVars, cfgVars, llmVars>>

\* self.restart_count += 1
CountAfterRestart == restart_count + 1

\* restart(): stop(), the counter, start().  With no live child, stop() and
\* the counter take no await and start() goes on to its spawn.
RestartCall(t) ==
    /\ MayInvoke(t)
    /\ IF ~Live
       THEN /\ state' = "starting"
            /\ restart_count' = CountAfterRestart
            /\ calls' = [calls EXCEPT ![t] = [op |-> "restart", pc |-> "spawn", target |-> NoProcess]]
            /\ UNCHANGED children
       ELSE /\ state' = "stopping"
            /\ children' = [children EXCEPT ![process].termed = TRUE]
            /\ calls' = [calls EXCEPT ![t] = [op |-> "restart", pc |-> "wait", target |-> process]]
            /\ UNCHANGED restart_count
    /\ UNCHANGED <<process, logs, start_time, read_tasks>>
    /\ UNCHANGED <<docVars, cfgVars, llmVars>>

\* The end of stop(): "stopped" and no start time.  In restart() the counter
\* and start() follow with no await between: start() returns when a child
\* is live, else sets "starting" and awaits its spawn.
StopEnds(t) ==
    /\ start_time' = NoTime
    /\ IF calls[t].op = "restart"
       THEN /\ restart_count' = CountAfterRestart
            /\ IF Live
               THEN state' = "stopped" /\ calls' = [calls EXCEPT ![t].pc = "done"]
               ELSE state' = "starting" /\ calls' = [calls EXCEPT ![t].pc = "spawn"]
       ELSE /\ state' = "stopped"
            /\ calls' = [calls EXCEPT ![t].pc = "done"]
            /\ UNCHANGED restart_count
    /\ UNCHANGED <<process, logs, read_tasks, children>>
    /\ UNCHANGED <<docVars, cfgVars, llmVars>>

\* wait_for(self.process.wait(), timeout=10) returns: the exit of the
\* process awaited is recorded.
WaitReturns(t) ==
    /\ calls[t].pc = "wait"
    /\ children[calls[t].target].status = "reaped"
    /\ StopEnds(t)

\* wait_for raises TimeoutError: self.process.kill(), then the wait of
\* self.process with no timeout.  kill() signals a process that runs and
\* does nothing to one that has ended.
WaitTimesOut(t) ==
    /\ calls[t].pc = "wait"
    /\ children[calls[t].target].status # "reaped"
    /\ children' = [children EXCEPT ![process].killed = TRUE]
    /\ calls' = [calls EXCEPT ![t].pc = "wait2", ![t].target = process]
    /\ UNCHANGED <<process, state, logs, start_time, restart_count, read_tasks>>
    /\ UNCHANGED <<docVars, cfgVars, llmVars>>

\* wait_for raises TimeoutError and self.process, replaced meanwhile by a
\* start() that was in flight, has ended and its transport is closed:
\* kill() raises ProcessLookupError out of stop(), and out of restart().
WaitKillRaises(t) ==
    /\ calls[t].pc = "wait"
    /\ children[calls[t].target].status # "reaped"
    /\ children[process].status = "reaped"
    /\ calls' = [calls EXCEPT ![t].pc = "raised"]
    /\ UNCHANGED <<process, state, logs, start_time, restart_count, read_tasks, children>>
    /\ UNCHANGED <<docVars, cfgVars, llmVars>>

\* await self.process.wait() returns after the kill.
KillWaitReturns(t) ==
    /\ calls[t].pc = "wait2"
    /\ children[calls[t].target].status = "reaped"
    /\ StopEnds(t)

(***************************************************************************)
(* _read_output, one task per successful spawn.  The task reads            *)
(* self.process anew in every turn of its loop.                            *)
(***************************************************************************)
\* readline() on the stream of child c returns at once: a line, or the end.
HasLine(c) == children[c].pending > 0
AtEof(c) == children[c].status \in {"exited", "reaped"} /\ children[c].pending = 0

\* while self.process and self.process.stdout: line = await readline().
\* The task d goes to wait on the stream of self.process; a call that has
\* to wait while another task waits on the same stream raises RuntimeError,
\* which ends the task.
Readline(d, tasks, unread) ==
    IF /\ unread = 0
       /\ children[process].status = "running"
       /\ \E e \in Children \ {d} : tasks[e].pc = "waiting" /\ tasks[e].stream = process
    THEN [tasks EXCEPT ![d].pc = "failed"]
    ELSE [tasks EXCEPT ![d] = [pc |-> "waiting", stream |-> process]]

\* The task runs for the first time, up to its first readline().
DrainBegins(d) ==
    /\ read_tasks[d].pc = "created"
    /\ read_tasks' = Readline(d, read_tasks, children[process].pending)
    /\ UNCHANGED <<process, state, logs, start_time, restart_count, children, calls>>
    /\ UNCHANGED <<docVars, cfgVars, llmVars>>

\* readline() returns a line: it is appended to the log, and the loop goes
\* on to the next readline().
DrainLine(d) ==
    /\ read_tasks[d].pc = "waiting"
    /\ HasLine(read_tasks[d].stream)
    /\ children' = [children EXCEPT ![read_tasks[d].stream].pending = @ - 1]
    /\ logs' = LogAppend(logs, OutputLine(read_tasks[d].stream))
    /\ read_tasks' = Readline(d, read_tasks, children'[process].pending)
    /\ UNCHANGED <<process, state, start_time, restart_count, calls>>
    /\ UNCHANGED <<docVars, cfgVars, llmVars>>

\* readline() returns b"": the loop ends, and when self.process has a
\* returncode and the state is "running" the exit is recorded.
DrainEof(d) ==
    /\ read_tasks[d].pc = "waiting"
    /\ AtEof(read_tasks[d].stream)
    /\ IF process # NoProcess /\ children[process].status = "reaped" /\ state = "running"
       THEN /\ state' = "error"
            /\ logs' = LogAppend(logs, ExitedLine(children[process].code))
       ELSE UNCHANGED <<state, logs>>
    /\ read_tasks' = [read_tasks EXCEPT ![d].pc = "done"]
    /\ UNCHANGED <<process, start_time, restart_count, children, calls>>
    /\ UNCHANGED <<docVars, cfgVars, llmVars>>

\* The task is cancelled with an exit recorded, as if the except clause
\* fell through to the exit check.
DrainCancelledRecordsExit(d) ==
    /\ read_tasks[d].pc \in {"created", "waiting"}
    /\ read_tasks' = [read_tasks EXCEPT ![d].pc = "cancelled"]
    /\ state' = "error"
    /\ logs' = LogAppend(logs, ExitedLine(0))
    /\ UNCHANGED <<process, start_time, restart_count, children, calls>>
    /\ UNCHANGED <<docVars, cfgVars, llmVars>>

\* The event loop cancels the task (nothing in the supervisor does; the
\* loop cancels what is left when it closes). A task that waits in
\* readline() gets CancelledError there, and except CancelledError: return
\* ends it; a task that never ran ends before its first statement.
DrainCancelled(d) ==
    /\ read_tasks[d].pc \in {"created", "waiting"}
    /\ read_tasks' = [read_tasks EXCEPT ![d].pc = "cancelled"]
    /\ UNCHANGED <<process, state, logs, start_time, restart_count, children, calls>>
    /\ UNCHANGED <<docVars, cfgVars, llmVars>>

(***************************************************************************)
(* The child processes.                                                    *)
(***************************************************************************)
\* A running child writes a line to its output.
ChildWrites(c) ==
    /\ children[c].status = "running"
    /\ children[c].left > 0
    /\ children' = [children EXCEPT ![c].left = @ - 1, ![c].wrote = @ + 1,
                                     ![c].pending = @ + 1]
    /\ UNCHANGED <<process, state, logs, start_time, restart_count, read_tasks, calls>>
    /\ UNCHANGED <<docVars, cfgVars, llmVars>>

\* The exit code of a child that ends now: the signal that ended it, or 0.
ExitCode(c) ==
    IF children[c].killed THEN -SIGKILL
    ELSE IF children[c].termed THEN -SIGTERM
    ELSE 0

\* A running child ends: killed, terminated, or by itself.
ChildExits(c) ==
    /\ children[c].status = "running"
    /\ children' = [children EXCEPT ![c].status = "exited", ![c].code = ExitCode(c)]
    /\ UNCHANGED <<process, state, logs, start_time, restart_count, read_tasks, calls>>
    /\ UNCHANGED <<docVars, cfgVars, llmVars>>

\* The event loop records the exit: Process.returncode is set.
ChildReaped(c) ==
    /\ children[c].status = "exited"
    /\ children' = [children EXCEPT ![c].status = "reaped"]
    /\ UNCHANGED <<process, state, logs, start_time, restart_count, read_tasks, calls>>
    /\ UNCHANGED <<docVars, cfgVars, llmVars>>

Next ==
    \/ \E t \in Calls :
          \/ StartCall(t)
          \/ StopCall(t)
          \/ RestartCall(t)
          \/ SpawnExec(t)
          \/ StartSpawned(t)
          \/ SpawnFails(t)
          \/ WaitReturns(t)
          \/ WaitTimesOut(t)
          \/ WaitKillRaises(t)
          \/ KillWaitReturns(t)
    \/ \E d \in Children :
          \/ DrainBegins(d)
          \/ DrainLine(d)
          \/ DrainEof(d)
          \/ DrainCancelled(d)
    \/ \E c \in Children :
          \/ ChildWrites(c)
          \/ ChildExits(c)
          \/ ChildReaped(c)

(***************************************************************************)
(* call_llm of validate_config.py: one call, the answers of the API drawn  *)
(* from a bounded set.                                                     *)
(***************************************************************************)
MAX_RETRIES == 3
INITIAL_BACKOFF_S == 5
BACKOFF_MULTIPLIER == 3

\* What urlopen() gives: a response with a body, an HTTPError with a status
\* and maybe a Retry-After header, or a URLError / TimeoutError / OSError.
NoHeader == Null
Response(body) == [kind |-> "response", status |-> 200, retry_after |-> NoHeader, body |-> body]
HTTPError(status, retry_after) ==
    [kind |-> "HTTPError", status |-> status, retry_after |-> retry_after, body |-> Null]
URLError == [kind |-> "URLError", status |-> 0, retry_after |-> NoHeader, body |-> Null]

Message(content) == Dict("message" :> Dict("content" :> content))
Choices(q) == Dict("choices" :> List(q))

\* The bodies of the responses: one as the API documents it, and bodies that
\* are not JSON, lack a key, have no choice, or hold a value of another type
\* where a dict, a list or a string is expected.
Bodies ==
    { Choices(<<Message(Str("NO_CHANGES_NEEDED"))>>),
      Unparsable,
      Dict(EmptyDict),
      Choices(<<>>),
      Choices(<<Dict("message" :> Dict(EmptyDict))>>),
      Choices(<<Message(Null)>>),
      Choices(<<Message(List(<<Str("text")>>))>>),
      Choices(<<Null>>),
      Null }

RetryAfterHeaders == { NoHeader, Str("7"), Str(""), Str("soon") }

Answers ==
    { Response(b) : b \in Bodies }
    \cup { HTTPError(429, h) : h \in RetryAfterHeaders }
    \cup { HTTPError(st, NoHeader) : st \in {304, 400, 404, 500, 503} }
    \cup { URLError }

\* A raised exception, by the name of its class.
Raised(e) == [t |-> "raise", v |-> e]
IsRaised(x) == x.t = "raise"

\* json.loads(text)
json_loads(text) == IF text.t = "unparsable" THEN Raised("JSONDecodeError") ELSE text

\* x[key] for a str key, as Python evaluates it on a parsed JSON value.
Subscript(x, key) ==
    IF IsRaised(x) THEN x
    ELSE IF IsDict(x)
    THEN IF key \in DOMAIN x.v THEN x.v[key] ELSE Raised("KeyError")
    ELSE Raised("TypeError")

\* x[0]
SubscriptZero(x) ==
    IF IsRaised(x) THEN x
    ELSE IF IsList(x)
    THEN IF Len(x.v) > 0 THEN x.v[1] ELSE Raised("IndexError")
    ELSE IF IsStr(x)
    THEN IF Len(x.v) > 0 THEN Str(SubSeq(x.v, 1, 1)) ELSE Raised("IndexError")
    ELSE IF IsDict(x) THEN Raised("KeyError")
    ELSE Raised("TypeError")

\* content = body["choices"][0]["message"]["content"]; len(content)
Content(text) ==
    LET body == json_loads(text)
        content == Subscript(Subscript(SubscriptZero(Subscript(body, "choices")),
                                       "message"), "content")
    IN  IF IsRaised(content) THEN content
        ELSE IF content.t \in {"str", "list", "dict"} THEN content
        ELSE Raised("TypeError")

\* str.isdigit() and int() on the header values of the model.
Digits == ("0" :> 0) @@ ("1" :> 1) @@ ("2" :> 2) @@ ("3" :> 3) @@ ("4" :> 4)
          @@ ("5" :> 5) @@ ("6" :> 6) @@ ("7" :> 7) @@ ("8" :> 8) @@ ("9" :> 9)
isdigit(s) == Len(s) > 0 /\ \A i \in 1..Len(s) : SubSeq(s, i, i) \in DOMAIN Digits
RECURSIVE int(_)
int(s) == IF Len(s) = 0 THEN 0
          ELSE 10 * int(SubSeq(s, 1, Len(s) - 1)) + Digits[SubSeq(s, Len(s), Len(s))]

\* wait = int(retry_after) if retry_after and retry_after.isdigit() else backoff
RetryAfterWait(retry_after, b) ==
    IF retry_after # NoHeader /\ retry_after.v # "" /\ isdigit(retry_after.v)
    THEN int(retry_after.v)
    ELSE b

\* What one turn of the loop does with the answer r: return a value, sleep
\* and go on, or let an exception out.
Handle(r, b) ==
    IF r.kind = "HTTPError"
    THEN IF r.status = 429
         THEN [do |-> "sleep", wait |-> RetryAfterWait(r.retry_after, b), value |-> Null]
         ELSE IF 500 <= r.status /\ r.status < 600
         THEN [do |-> "sleep", wait |-> b, value |-> Null]
         ELSE [do |-> "raise", wait |-> 0, value |-> Raised("HTTPError")]
    ELSE IF r.kind = "URLError"
    THEN [do |-> "sleep", wait |-> b, value |-> Null]
    ELSE LET content == Content(r.body)
         IN  IF ~IsRaised(content)
             THEN [do |-> "return", wait |-> 0, value |-> content]
             ELSE IF content.v \in {"JSONDecodeError", "KeyError", "IndexError"}
             THEN [do |-> "sleep", wait |-> b, value |-> Null]
             ELSE [do |-> "raise", wait |-> 0, value |-> content]

LlmIdle ==
    /\ llm_pc = "idle"
    /\ attempt = 0
    /\ backoff = 0
    /\ requests = <<>>
    /\ slept = <<>>
    /\ result = Null

\* call_llm is called: backoff = INITIAL_BACKOFF_S, and the loop begins.
LlmCall ==
    /\ llm_pc = "idle"
    /\ llm_pc' = "request"
    /\ attempt' = 1
    /\ backoff' = INITIAL_BACKOFF_S
    /\ UNCHANGED <<requests, slept, result>>
    /\ UNCHANGED <<docVars, cfgVars, supVars>>

\* One turn of the loop: the request is sent and answered by r. The turn
\* returns the content, or lets the exception out, or sleeps, multiplies the
\* backoff and goes to the next attempt; after the last attempt the function
\* raises RuntimeError.
LlmAttempt(r) ==
    /\ llm_pc = "request"
    /\ requests' = Append(requests, r)
    /\ LET h == Handle(r, backoff)
       IN  IF h.do = "sleep"
           THEN /\ slept' = Append(slept, h.wait)
                /\ backoff' = backoff * BACKOFF_MULTIPLIER
                /\ IF attempt < MAX_RETRIES
                   THEN /\ attempt' = attempt + 1
                        /\ UNCHANGED <<llm_pc, result>>
                   ELSE /\ llm_pc' = "raised"
                        /\ result' = Raised("RuntimeError")
                        /\ UNCHANGED attempt
           ELSE /\ llm_pc' = IF h.do = "return" THEN "returned" ELSE "raised"
                /\ result' = h.value
                /\ UNCHANGED <<attempt, backoff, slept>>
    /\ UNCHANGED <<docVars, cfgVars, supVars>>

\* The configuration handlers at rest, for the specifications that leave
\* them alone, and the document steps at rest.
CfgIdle ==
    /\ config_file = Absent
    /\ config_lock = 0
    /\ put = [w \in Writers |-> IdlePut]
    /\ get = [config |-> Null, response |-> Null]

DocIdle ==
    /\ doc_pc = "none"
    /\ existing_data = Null
    /\ new_data = Null
    /\ masked = Null
    /\ remasked = Null
    /\ merged = Null

InitCfg == InitCfgVars /\ DocIdle /\ SupIdle /\ LlmIdle

SpecCfg == InitCfg /\ [][NextCfg]_vars

Init == InitSupVars /\ CfgIdle /\ DocIdle /\ LlmIdle

Spec == Init /\ [][Next]_vars

(***************************************************************************)
(* SpecLog: one start() of a child that writes MaxLogLines lines, and the  *)
(* task that drains them into the log.                                     *)
(***************************************************************************)
InitLog ==
    /\ process = NoProcess
    /\ state = "stopped"
    /\ logs = <<>>
    /\ start_time = NoTime
    /\ restart_count = 0
    /\ read_tasks = [c \in Children |-> NoTask]
    /\ children = [c \in Children |-> [NotSpawned EXCEPT !.left = MaxLogLines]]
    /\ calls = [t \in Calls |-> NoCall]
    /\ CfgIdle
    /\ LlmIdle
    /\ DocIdle

NextLog ==
    \/ StartCall(1)
    \/ SpawnExec(1)
    \/ StartSpawned(1)
    \/ DrainBegins(1)
    \/ DrainLine(1)
    \/ ChildWrites(1)

SpecLog == InitLog /\ [][NextLog]_vars

(***************************************************************************)
(* SpecLlm: one call of call_llm against an API that answers anything.     *)
(***************************************************************************)
InitLlm == LlmIdle /\ CfgIdle /\ DocIdle /\ SupIdle

NextLlm == LlmCall \/ \E r \in Answers : LlmAttempt(r)

SpecLlm == InitLlm /\ [][NextLlm]_vars

(***************************************************************************)
(* SpecMask: a client reads the stored document masked, the masked         *)
(* document is masked once more, and the client resubmits what it read.    *)
(***************************************************************************)
InitMask ==
    /\ doc_pc = "stored"
    /\ existing_data \in MaskDocs
    /\ new_data = Null
    /\ masked = Null
    /\ remasked = Null
    /\ merged = Null
    /\ CfgIdle
    /\ LlmIdle
    /\ SupIdle

MaskRead ==
    /\ doc_pc = "stored"
    /\ masked' = mask_secrets(existing_data)
    /\ doc_pc' = "read"
    /\ UNCHANGED <<existing_data, new_data, remasked, merged>>
    /\ UNCHANGED <<cfgVars, supVars, llmVars>>

MaskAgain ==
    /\ doc_pc = "read"
    /\ remasked' = mask_secrets(masked)
    /\ doc_pc' = "reread"
    /\ UNCHANGED <<existing_data, new_data, masked, merged>>
    /\ UNCHANGED <<cfgVars, supVars, llmVars>>

Resubmit ==
    /\ doc_pc = "reread"
    /\ new_data' = masked
    /\ merged' = merge_secrets(masked, existing_data)
    /\ doc_pc' = "resubmitted"
    /\ UNCHANGED <<existing_data, masked, remasked>>
    /\ UNCHANGED <<cfgVars, supVars, llmVars>>

NextMask == MaskRead \/ MaskAgain \/ Resubmit

SpecMask == InitMask /\ [][NextMask]_vars

(***************************************************************************)
(* SpecMerge: merge_secrets on a submitted and a stored document.          *)
(***************************************************************************)
InitMerge ==
    /\ doc_pc = "submitted"
    /\ existing_data \in MergeDocs
    /\ new_data \in MergeDocs
    /\ masked = Null
    /\ remasked = Null
    /\ merged = Null
    /\ CfgIdle
    /\ LlmIdle
    /\ SupIdle

Merge ==
    /\ doc_pc = "submitted"
    /\ merged' = merge_secrets(new_data, existing_data)
    /\ doc_pc' = "merged"
    /\ UNCHANGED <<existing_data, new_data, masked, remasked>>
    /\ UNCHANGED <<cfgVars, supVars, llmVars>>

NextMerge == Merge

SpecMerge == InitMerge /\ [][NextMerge]_vars

(***************************************************************************)
(* Properties of mask_secrets and merge_secrets.                           *)
(***************************************************************************)

\* C2: for every stored document E whose lists hold strings only, resubmitting
\* the masked document unchanged gives back E: merge(mask(E), E) = E, so no
\* secret is replaced by its masked string.
C2_ResubmitPreserves ==
    (doc_pc = "resubmitted" /\ ListsOfStrings(existing_data))
        => merged = existing_data

\* C2 witness: a real secret two levels deep was masked in what the client
\* resubmitted, and the merge restored it.
C2_Witness ==
    /\ doc_pc = "resubmitted"
    /\ ListsOfStrings(existing_data)
    /\ \E p \in Paths(existing_data) :
          /\ Len(p) = 2
          /\ RealSecretEntry(existing_data, p)
          /\ At(new_data, p) = Str("abcdefgh***")
          /\ At(merged, p) = Str("abcdefghi")

\* Every secret entry of D that is a leaf is a placeholder ("" or ...***).
OnlyPlaceholders(D) ==
    \A p \in Paths(D) :
        (SecretEntry(D, p) /\ IsLeaf(At(D, p))) => PlaceholderEntry(D, p)

\* The result R keeps D's value at p, up to the entries below p.
SameShapeAt(D, R, p) ==
    /\ Has(R, p)
    /\ IF IsDict(At(D, p))
       THEN IsDict(At(R, p)) /\ DOMAIN At(R, p).v = DOMAIN At(D, p).v
       ELSE IF IsList(At(D, p))
       THEN IsList(At(R, p)) /\ Len(At(R, p).v) = Len(At(D, p).v)
       ELSE At(R, p) = At(D, p)

\* C3: when every secret leaf of D is a placeholder, merge(D, E) has D's
\* non-secret structure and values, and every secret leaf holds E's value at
\* the same path, or "" when E has no value there (also when E holds a
\* non-dict where D has a dict); D's placeholder is never stored.
C3_PlaceholdersNeverStored ==
    (doc_pc = "merged" /\ OnlyPlaceholders(new_data)) =>
        \A p \in Paths(new_data) :
            IF PlaceholderEntry(new_data, p)
            THEN /\ Has(merged, p)
                 /\ At(merged, p) =
                        (IF Has(existing_data, p) THEN At(existing_data, p) ELSE Str(""))
            ELSE SameShapeAt(new_data, merged, p)

\* C4: a secret leaf of D holding a real secret (a non-empty string that does
\* not end in ***) is in merge(D, E) with D's value, whatever E holds there.
C4_RealSecretAdopted ==
    doc_pc = "merged" =>
        \A p \in Paths(new_data) :
            RealSecretEntry(new_data, p)
                => (Has(merged, p) /\ At(merged, p) = At(new_data, p))

\* C4 witness: a real secret of D, two levels deep, replaced another value of E.
C4_Witness ==
    /\ doc_pc = "merged"
    /\ \E p \in Paths(new_data) :
          /\ Len(p) = 2
          /\ RealSecretEntry(new_data, p)
          /\ Has(existing_data, p)
          /\ At(existing_data, p) = Str("ab***")
          /\ At(merged, p) = At(new_data, p)

\* q starts with p.
StartsWith(q, p) == Len(p) <= Len(q) /\ SubSeq(q, 1, Len(p)) = p

\* C5 as stated: at every dict level of the result the key set is D's, and
\* every non-secret leaf of the result is D's leaf.
C5_FullReplaceEverywhere ==
    doc_pc = "merged" =>
        /\ \A p \in Paths(new_data) :
              IsDict(At(new_data, p)) => SameShapeAt(new_data, merged, p)
        /\ \A q \in Paths(merged) :
              /\ IsDict(At(merged, q))
                    => (Has(new_data, q) /\ SameShapeAt(new_data, merged, q))
              /\ (IsLeaf(At(merged, q)) /\ ~SecretEntry(merged, q))
                    => (Has(new_data, q) /\ At(new_data, q) = At(merged, q))

\* C5 amended: at every dict level of D the result has exactly D's keys, every
\* entry of D other than a secret placeholder is in the result with D's value,
\* and the only part of the result that is not D's is the value of E put in
\* the place of a secret placeholder of D (a whole subtree when E holds a dict
\* or a list under that secret key).
C5_FullReplace ==
    doc_pc = "merged" =>
        /\ \A p \in Paths(new_data) :
              IF PlaceholderEntry(new_data, p)
              THEN Has(merged, p)
              ELSE SameShapeAt(new_data, merged, p)
        /\ \A q \in Paths(merged) :
              \/ Has(new_data, q)
              \/ \E p \in Paths(new_data) :
                    /\ PlaceholderEntry(new_data, p)
                    /\ StartsWith(q, p)
                    /\ Has(existing_data, p)
                    /\ At(merged, p) = At(existing_data, p)

\* C5 witness: E has a key that D lacks at a level where both are dicts, and a
\* different plain leaf; the result has neither.
C5_Witness ==
    /\ doc_pc = "merged"
    /\ GenSecretKey \in DOMAIN existing_data.v
    /\ GenSecretKey \notin DOMAIN new_data.v
    /\ GenSecretKey \notin DOMAIN merged.v
    /\ Has(new_data, <<GenPlainKey, GenPlainKey>>)
    /\ Has(existing_data, <<GenPlainKey, GenSecretKey>>)
    /\ ~Has(merged, <<GenPlainKey, GenSecretKey>>)
    /\ At(merged, <<GenPlainKey, GenPlainKey>>) = Num(7)

\* The masked form of a secret string s, as the data model states it.
IsMaskedFormOf(m, s) ==
    IF Len(s) <= 8
    THEN m = "***"
    ELSE /\ Len(m) = 11
         /\ \A i \in 1..8 : SubSeq(m, i, i) = SubSeq(s, i, i)
         /\ SubSeq(m, 9, 11) = "***"

\* C6: mask replaces every dict entry, at any depth, whose key is a secret
\* field and whose value is a non-empty string, by *** (8 characters or fewer)
\* or by its first 8 characters and *** (more than 8); every other leaf and
\* the dict/list structure are unchanged.
C6_MaskContract ==
    doc_pc # "stored" =>
        /\ Paths(masked) = Paths(existing_data)
        /\ \A p \in Paths(existing_data) :
              IF /\ SecretEntry(existing_data, p)
                 /\ IsStr(At(existing_data, p))
                 /\ At(existing_data, p).v # ""
              THEN /\ IsStr(At(masked, p))
                   /\ IsMaskedFormOf(At(masked, p).v, At(existing_data, p).v)
              ELSE SameShapeAt(existing_data, masked, p)

\* C6 witness: a document with an 8-character secret at the top and a
\* 9-character secret one level down, both masked, beside an unmasked list.
C6_Witness ==
    /\ doc_pc = "read"
    /\ Has(existing_data, <<GenSecretKey>>)
    /\ At(existing_data, <<GenSecretKey>>) = Str("abcdefgh")
    /\ At(masked, <<GenSecretKey>>) = Str("***")
    /\ Has(existing_data, <<GenPlainKey, GenSecretKey>>)
    /\ At(existing_data, <<GenPlainKey, GenSecretKey>>) = Str("abcdefghi")
    /\ At(masked, <<GenPlainKey, GenSecretKey>>) = Str("abcdefgh***")
    /\ Has(masked, <<GenPlainKey, GenPlainKey, "#1">>)

\* C8: masking is idempotent on secret leaves: every secret entry of
\* mask(mask(D)) equals the same entry of mask(D).
C8_MaskIdempotent ==
    doc_pc \in {"reread", "resubmitted"} =>
        \A p \in Paths(masked) :
            SecretEntry(masked, p)
                => (Has(remasked, p) /\ At(remasked, p) = At(masked, p))

\* C8 witness: a long and a short secret, masked once and then again.
C8_Witness ==
    /\ doc_pc = "reread"
    /\ Has(existing_data, <<GenSecretKey>>)
    /\ At(existing_data, <<GenSecretKey>>) = Str("abcdefghi")
    /\ At(masked, <<GenSecretKey>>) = Str("abcdefgh***")
    /\ At(remasked, <<GenSecretKey>>) = Str("abcdefgh***")
    /\ Has(existing_data, <<GenPlainKey, GenSecretKey>>)
    /\ At(existing_data, <<GenPlainKey, GenSecretKey>>) = Str("abc")
    /\ At(remasked, <<GenPlainKey, GenSecretKey>>) = Str("***")

(***************************************************************************)
(* The configuration store: properties of SpecCfg.                         *)
(***************************************************************************)
RealKey == Str("sk-real-value-123456")

\* Writer w has saved its document and answered 200.
Saved(w) == put[w].pc = "done" /\ put[w].status = 200

\* The last read saw the real key in the stored document.
ReadOfRealKey == Has(get.config, AnthropicKey) /\ At(get.config, AnthropicKey) = RealKey

\* The write of the real key over the default document keeps the key.
RealKeyWritten ==
    \A w \in Writers :
        (Saved(w) /\ put[w].body = RealBody /\ put[w].existing = default_config)
            => At(put[w].merged, AnthropicKey) = RealKey

\* C7 as the code has it: starting from the default document, the write of
\* providers.anthropic.api_key = "sk-real-value-123456" stores that value,
\* and a read of the stored document returns the leaf as its first 8
\* characters and the marker, "sk-real-***".
C7_RealStoredReadMasked ==
    /\ RealKeyWritten
    /\ ReadOfRealKey => At(get.response, AnthropicKey) = Str("sk-real-***")

\* The real key was written over the default document, is what the file
\* holds, and was read back.
C7_Witness ==
    /\ \E w \in Writers :
          /\ Saved(w) /\ put[w].body = RealBody /\ put[w].existing = default_config
          /\ config_file = put[w].merged
    /\ get.config = config_file
    /\ ReadOfRealKey
    /\ At(get.response, AnthropicKey) = Str("sk-real-***")

\* C7 as stated: the read returns the leaf masked as "sk-real-v***".
C7_ReadMaskedNineChars ==
    /\ RealKeyWritten
    /\ ReadOfRealKey => At(get.response, AnthropicKey) = Str("sk-real-v***")

\* C9: the load, merge, save of one write runs entirely before or after
\* that of any other: every save stores the merge of the writer's body with
\* the document stored just before the save, which is also the document the
\* writer loaded, so the stored document is the result of the writes applied
\* one after the other.
C9_WritesSerialized ==
    [][\A w \in Writers :
          (put[w].pc = "merged" /\ Saved(w)')
              => /\ put[w].existing = load_config
                 /\ config_file' = merge_secrets(put[w].body, load_config)]_vars

\* Two writes were in flight together, the later writer merged against the
\* document the earlier one saved, and the real key of the earlier write
\* survived the masked key of the later one.
C9_Witness ==
    \E a, b \in Writers :
        /\ a # b
        /\ Saved(a) /\ put[a].body = RealBody
        /\ Saved(b) /\ put[b].body = MaskedBody
        /\ put[b].existing = put[a].merged
        /\ put[b].existing # default_config
        /\ config_file = put[b].merged
        /\ At(config_file, AnthropicKey) = RealKey

(***************************************************************************)
(* The supervisor: properties of Spec.                                     *)
(***************************************************************************)
\* C1: at every moment at most one child spawned by the supervisor is
\* alive, under any interleaving of start(), stop() and restart().
C1_AtMostOneChild == Cardinality(Alive) <= 1

\* The restart() invocations that have ended, by returning or by raising.
RestartsEnded == { t \in Calls : calls[t].op = "restart" /\ calls[t].pc \in {"done", "raised"} }

\* C10: every restart() invocation increases the restart counter by exactly
\* 1 and nothing else changes it, so the counter is never behind the
\* number of restart() invocations that have ended.
C10_EveryRestartCounts == Cardinality(RestartsEnded) <= restart_count

(***************************************************************************)
(* The log buffer: properties of SpecLog.                                  *)
(***************************************************************************)
\* The number of lines the task has appended to the log.
Appended == children[1].wrote - children[1].pending

\* C11: the log never holds more than 500 lines, and an append to a full
\* log drops exactly the oldest line: the log holds the last 500 lines
\* appended, in their order, so after 501 appends line 1 is gone and line
\* 501 is the last.
C11_LogKeepsNewest ==
    /\ Len(logs) <= LOG_MAXLEN
    /\ Len(logs) = (IF Appended <= LOG_MAXLEN THEN Appended ELSE LOG_MAXLEN)
    /\ \A i \in 1..Len(logs) : logs[i] = [kind |-> "output", arg |-> 1, n |-> Appended - Len(logs) + i]

\* After capacity + 1 appends the log is full, starts at line 2 and ends
\* with line 501.
C11_Witness ==
    /\ Appended = LOG_MAXLEN + 1
    /\ Len(logs) = LOG_MAXLEN
    /\ logs[1].n = 2
    /\ logs[LOG_MAXLEN].n = LOG_MAXLEN + 1

(***************************************************************************)
(* The supervisor's operations: properties of Spec.                        *)
(***************************************************************************)
\* Call t is invoked in this step, as operation op.
Invoked(t, op) == calls[t].op = "none" /\ calls'[t].op = op

\* Call t has returned without an await: it found nothing to do.
ReturnedAtOnce(t, op) ==
    calls[t] = [op |-> op, pc |-> "done", target |-> NoProcess]

\* C12: stop() invoked when no child is live (never started, spawn failed,
\* or the child has exited) sets the state to "stopped", returns without
\* raising, signals no process and leaves the process handle, the restart
\* counter and the log unchanged; a second stop() changes nothing more.
C12_StopWithoutChild ==
    [][\A t \in Calls :
          (Invoked(t, "stop") /\ ~Live)
              => /\ state' = "stopped"
                 /\ calls'[t].pc = "done"
                 /\ UNCHANGED <<process, restart_count, logs, children, read_tasks>>
                 /\ state = "stopped" => UNCHANGED <<state, start_time>>]_vars

\* After a failed spawn two stop() calls in a row have returned at once:
\* the state is "stopped", the failure line is all the log holds, and no
\* handle is recorded.
C12_Witness ==
    /\ calls[1].op = "start" /\ calls[1].pc = "done"
    /\ ReturnedAtOnce(2, "stop")
    /\ ReturnedAtOnce(3, "stop")
    /\ state = "stopped"
    /\ logs = <<FailedLine>>
    /\ process = NoProcess
    /\ restart_count = 0

\* The spawn awaited by call t fails in this step.
SpawnFailsIn(t) == calls[t].pc = "spawn" /\ calls'[t].pc = "done"

ChildGoneAndDrained ==
    /\ process # NoProcess
    /\ children[process].status = "reaped"
    /\ read_tasks[process].pc = "done"

\* C14: when the child ends with no stop() while the state is "running",
\* the drain task sets the state to "error" at the end of the stream,
\* whatever the order of the end of the stream and the recording of the
\* exit code: the state is not "running" once the child is gone and its
\* drain task has ended.
C14_ExitRecorded == ChildGoneAndDrained => state # "running"

\* Call t, a stop() or the stop() of a restart(), ends its wait in this step.
StopEndsIn(t) == calls[t].pc \in {"wait", "wait2"} /\ calls'[t].pc \in {"done", "spawn"}

\* C15: stop() on a live child sets "stopping" and requests termination; a
\* kill is sent only to a child whose termination was requested and that
\* had not exited when the timeout elapsed; and the state becomes "stopped"
\* and the start time is cleared only when the children that stop()
\* signalled have exited.
C15_GracefulThenForced ==
    [][/\ \A t \in Calls :
            (Invoked(t, "stop") /\ Live)
                => (state' = "stopping" /\ children'[process].termed)
       /\ \A c \in Children :
            (~children[c].killed /\ children'[c].killed)
                => (children[c].termed /\ children[c].status # "reaped")
       /\ \A t \in Calls :
            StopEndsIn(t)
                => /\ start_time' = NoTime
                   /\ \A c \in Children : children[c].termed => c \notin Alive]_vars

\* C16: every stop() completes with the state "stopped", also when the
\* child ignores the termination request; the timeout of the graceful stop
\* never reaches the caller as an error and never leaves the state at
\* "stopping": no stop() ends by raising, and one that has ended its wait
\* has set "stopped".
C16_StopCompletes ==
    /\ [](\A t \in Calls : calls[t].pc # "raised")
    /\ [][\A t \in Calls :
            (StopEndsIn(t) /\ calls[t].op = "stop") => state' = "stopped"]_vars

\* C17: every get_status() snapshot is consistent: it carries a pid only
\* when the state is "running" or "stopping", and an uptime only when the
\* state is "running".
C17_StatusConsistent ==
    /\ get_status.pid # NoProcess => get_status.state \in {"running", "stopping"}
    /\ get_status.uptime => get_status.state = "running"

\* No start(), stop() or restart() is in flight.
Quiet == \A t \in Calls : calls[t].pc \in {"idle", "done", "raised"}

\* C18: whenever the state is "error" or "stopped" and no operation is in
\* flight, a start() is accepted: it finds no live child behind the handle,
\* so it sets "starting" and spawns instead of returning at once.
C18_StartAccepted == (Quiet /\ state \in {"error", "stopped"}) => ~Live

\* C19: start() invoked while a handle exists and its child has not exited
\* does nothing: it returns at once, spawns nothing, creates no drain task
\* and leaves the state, the handle, the start time, the restart counter
\* and the log unchanged, also when the state is "stopping".
C19_StartNoOp ==
    [][\A t \in Calls :
          (Invoked(t, "start") /\ Live)
              => /\ calls'[t].pc = "done"
                 /\ UNCHANGED <<state, process, start_time, restart_count, logs,
                                children, read_tasks>>]_vars

\* A start() has returned at once during a stop(): the child of the first
\* start() is still running, the state is "stopping", nothing was spawned.
C19_Witness ==
    /\ calls[1] = [op |-> "start", pc |-> "done", target |-> 1]
    /\ calls[2] = [op |-> "stop", pc |-> "wait", target |-> 1]
    /\ ReturnedAtOnce(3, "start")
    /\ state = "stopping"
    /\ process = 1
    /\ Alive = {1}
    /\ children[2].status = "unspawned"
    /\ logs = <<>>

(***************************************************************************)
(* Rejected writes: a property of SpecCfg.                                 *)
(***************************************************************************)
\* Writer w was answered with an error.
Rejected(w) == put[w].pc = "done" /\ put[w].status # 200

\* C20: a write whose payload does not parse, or is no dict at the top
\* level, is answered with an error and reaches neither merge_secrets nor
\* save_config: it never holds the lock, it changes the stored document in
\* no step, and it creates no restart task.
C20_MalformedRejected ==
    /\ [](\A w \in Writers :
            (put[w].pc \in {"parsed", "popped", "done"} /\ ~IsDict(put[w].body))
                => /\ put[w].pc # "popped"
                   /\ put[w].pc = "done" => put[w].status \in {400, 500}
                   /\ put[w].existing = Null /\ put[w].merged = Null
                   /\ ~put[w].restart_task
                   /\ config_lock # w)
    /\ [][\A w \in Writers :
            (put[w].pc # "done" /\ Rejected(w)' /\ ~IsDict(put[w].body))
                => UNCHANGED <<config_file, config_lock>>]_vars

\* A list was answered 500 with no merge and no restart task, and the
\* document another writer has stored is what the file holds.
C20_Witness ==
    \E a, b \in Writers :
        /\ a # b
        /\ Saved(a) /\ put[a].body = RealBody /\ config_file = put[a].merged
        /\ put[b].pc = "done" /\ put[b].status = 500 /\ put[b].body = List(<<>>)
        /\ put[b].merged = Null /\ ~put[b].restart_task

(***************************************************************************)
(* Concurrent operations: properties of Spec.                              *)
(***************************************************************************)
\* The restart() invocations made so far.
RestartsInvoked == { t \in Calls : calls[t].op = "restart" }

\* A stop(), or the stop() of a restart(), sets "stopped" in this step.
StopMarksStopped ==
    /\ state' = "stopped"
    /\ \E t \in Calls :
          \/ Invoked(t, "stop")
          \/ StopEndsIn(t)
          \/ (Invoked(t, "restart") /\ calls'[t].pc = "done")

\* C21: concurrent start(), stop() and restart() are serializable: once
\* all have completed the record is one that the same invocations give when
\* run one at a time (at most one child alive, none when the state is
\* "stopped", the counter equal to the number of restart() invocations), and
\* no stop() marks the state "stopped" while a child spawned by an
\* overlapping start() is alive.
C21_Serializable ==
    /\ [](Quiet => /\ Cardinality(Alive) <= 1
                   /\ state = "stopped" => Alive = {}
                   /\ restart_count = Cardinality(RestartsInvoked))
    /\ [][StopMarksStopped => Alive' = {}]_vars

\* The log after this step is the log before it with one line appended, the
\* oldest line dropped when the log was full.
OneLineAppended ==
    IF Len(logs) < LOG_MAXLEN
    THEN Len(logs') = Len(logs) + 1 /\ SubSeq(logs', 1, Len(logs)) = logs
    ELSE Len(logs') = LOG_MAXLEN /\ SubSeq(logs', 1, LOG_MAXLEN - 1) = Tail(logs)

\* C22: the log survives start(), stop() and restart(): no step removes or
\* reorders lines, a line leaves the log only as the oldest line when one
\* is appended to a full log, and the log snapshot gives the lines kept in
\* the order of their insertion, oldest first.
C22_LogHistoryKept ==
    /\ [](api_logs.lines = logs)
    /\ [][logs' = logs \/ OneLineAppended]_vars

\* After a stop() and a later start() the log holds the line of the first
\* child followed by the line of the second.
C22_Witness ==
    /\ process = 2
    /\ state = "running"
    /\ calls[2].op = "stop" /\ calls[2].pc = "done"
    /\ api_logs.lines = <<[kind |-> "output", arg |-> 1, n |-> 1],
                          [kind |-> "output", arg |-> 2, n |-> 1]>>

(***************************************************************************)
(* The restart asked for by a write: a property of SpecCfg.                *)
(***************************************************************************)
\* C23: the restart a write asks for is started only after the merged
\* document has been saved; a write that is rejected, or whose save fails,
\* starts no restart; and a write that asks for none starts none and
\* leaves the supervisor as it is.
C23_RestartAfterSave ==
    /\ [](\A w \in Writers :
            /\ put[w].restart_task => (Saved(w) /\ put[w].restart)
            /\ Rejected(w) => ~put[w].restart_task)
    /\ [][\A w \in Writers :
            (~put[w].restart_task /\ put'[w].restart_task)
                => (put[w].pc = "merged" /\ config_file' = put[w].merged)]_vars
    /\ [][UNCHANGED supVars]_vars

\* One write that asked for a restart was saved and its restart started;
\* the save of another that asked for one failed, and it started none.
C23_Witness ==
    \E a, b \in Writers :
        /\ a # b
        /\ Saved(a) /\ put[a].restart /\ put[a].restart_task
        /\ IsDict(put[b].body) /\ put[b].restart
        /\ put[b].pc = "done" /\ put[b].status = 500 /\ ~put[b].restart_task

(***************************************************************************)
(* Cancellation of the drain task: a property of Spec.                     *)
(***************************************************************************)
Cancelled(d) == read_tasks[d].pc = "cancelled"

\* C24: cancelling the output-drain task raises no failure out of the task
\* and leaves the supervisor record alone: the step that cancels a task
\* ends that task only, and changes neither the state, the log (no exit
\* line is appended), the handle, the start time nor the restart counter.
C24_CancelTolerated ==
    [][\A d \in Children :
          (~Cancelled(d) /\ Cancelled(d)')
              => /\ read_tasks[d].pc \in {"created", "waiting"}
                 /\ \A e \in Children \ {d} : read_tasks'[e] = read_tasks[e]
                 /\ UNCHANGED <<process, state, logs, start_time, restart_count>>]_vars

\* A task was cancelled while the supervisor was "running" and its child
\* had already been reaped: the exit check would have recorded the exit.
C24_Witness ==
    \E d \in Children :
        /\ Cancelled(d)
        /\ process = d
        /\ state = "running"
        /\ children[d].status = "reaped"

(***************************************************************************)
(* Secrets inside list elements: a property of SpecMask.                   *)
(***************************************************************************)
\* C25: masking and merging cover the same leaves. For every stored
\* document E, also one with secret-keyed strings in dicts that are list
\* elements, resubmitting what was read gives back E, and every leaf that
\* the mask replaced holds E's value again in the merged document.
C25_ListSecretsRestored ==
    doc_pc = "resubmitted" =>
        /\ merged = existing_data
        /\ \A p \in Paths(existing_data) :
              At(masked, p) # At(existing_data, p)
                  => (Has(merged, p) /\ At(merged, p) = At(existing_data, p))

(***************************************************************************)
(* The drain tasks and their streams: a property of Spec.                  *)
(***************************************************************************)
\* The task d ends its loop and records an exit in this step.
ReportsExit(d) ==
    /\ read_tasks[d].pc = "waiting"
    /\ read_tasks'[d].pc = "done"
    /\ state = "running"
    /\ state' = "error"

\* C26: there is one output-drain task per spawned child and it reads the
\* stream of that child only: a task waits on no stream but its own, no two
\* tasks wait on the same stream, no task fails on a stream another task
\* waits on, and a task that records an exit records the exit of its own
\* child, also after a later spawn has replaced the process handle.
C26_OwnStreamOnly ==
    /\ [](\A d \in Children :
            /\ read_tasks[d].pc # "none" => children[d].status # "unspawned"
            /\ read_tasks[d].pc = "waiting" => read_tasks[d].stream = d
            /\ read_tasks[d].pc # "failed"
            /\ \A e \in Children \ {d} :
                  (read_tasks[d].pc = "waiting" /\ read_tasks[e].pc = "waiting")
                      => read_tasks[d].stream # read_tasks[e].stream)
    /\ [][\A d \in Children : ReportsExit(d) => process = d]_vars

(***************************************************************************)
(* The retry contract of call_llm: a property of SpecLlm.                  *)
(***************************************************************************)
\* A response as the caller needs it: JSON whose choices[0].message.content
\* is a string.
WellFormed(r) ==
    /\ r.kind = "response"
    /\ IsDict(r.body) /\ "choices" \in DOMAIN r.body.v
    /\ LET choices == r.body.v["choices"]
       IN  /\ IsList(choices) /\ Len(choices.v) > 0
           /\ IsDict(choices.v[1]) /\ "message" \in DOMAIN choices.v[1].v
           /\ LET message == choices.v[1].v["message"]
              IN  /\ IsDict(message) /\ "content" \in DOMAIN message.v
                  /\ IsStr(message.v["content"])

ContentOf(r) == r.body.v["choices"].v[1].v["message"].v["content"]

Malformed(r) == r.kind = "response" /\ ~WellFormed(r)

\* The answers after which the call waits and tries again, and those that
\* end it at once.
Retried(r) ==
    \/ r.kind = "HTTPError" /\ (r.status = 429 \/ (500 <= r.status /\ r.status < 600))
    \/ r.kind = "URLError"
    \/ Malformed(r)

Aborts(r) ==
    r.kind = "HTTPError" /\ 400 <= r.status /\ r.status < 500 /\ r.status # 429

DefaultWait == <<5, 15, 45>>

\* C27: call_llm sends at most MAX_RETRIES (3) requests. A well-formed
\* response ends the call, which returns its content. After a 429, a 5xx, a
\* network error or a malformed response the call sleeps (5, 15, 45 seconds
\* by default across the attempts, or the seconds of the Retry-After header
\* of a 429) and sends the next request, or raises RuntimeError when that
\* was the third attempt. A 4xx other than 429 ends the call at once with
\* the error, and no request follows.
C27_RetryContract ==
    /\ Len(requests) <= MAX_RETRIES
    /\ llm_pc = "returned" => WellFormed(requests[Len(requests)])
    /\ \A i \in 1..Len(requests) :
          LET r == requests[i]
              last == (i = Len(requests))
          IN  /\ WellFormed(r)
                    => (last /\ llm_pc = "returned" /\ result = ContentOf(r))
              /\ Aborts(r)
                    => (last /\ llm_pc = "raised" /\ result = Raised("HTTPError"))
              /\ Retried(r)
                    => /\ Len(slept) >= i
                       /\ \/ slept[i] = DefaultWait[i]
                          \/ /\ r.kind = "HTTPError" /\ r.status = 429
                             /\ r.retry_after # NoHeader
                             /\ isdigit(r.retry_after.v)
                             /\ slept[i] = int(r.retry_after.v)
                       /\ IF i < MAX_RETRIES
                          THEN ~last \/ llm_pc = "request"
                          ELSE llm_pc = "raised" /\ result = Raised("RuntimeError")
====
